---- MODULE Spec2Model ----
(***************************************************************************)
(* Architectural state of the cpulib CPU emulator: the sparse memory model *)
(* (src/src/memory.rs) and the register file (src/src/registers.rs).       *)
(*                                                                         *)
(* Representation of machine integers.                                     *)
(* SubSeq(f, 1, n) of a function f with domain 1..n is f itself; it is    *)
(* written where TLC should hold f as an explicit tuple.                   *)
(*                                                                         *)
(*  - u8 values (memory bytes) are the integers 0..255.                    *)
(*  - A value of an unsigned type of w bits (u16 .. u512, GPR contents) is *)
(*    a bit vector: a function [0..w-1 -> BOOLEAN], bit 0 least            *)
(*    significant.  u8 values handed to Memory::write are bit vectors of   *)
(*    width 8 as well; to_bytes / from_bytes convert to and from bytes.    *)
(*  - A usize is an integer n with |n| small: n >= 0 stands for the value  *)
(*    n and n < 0 for the value 2^64 + n (the top of the address space).   *)
(*    On this representation wrapping +, - are the integer +, -, and the   *)
(*    operators AddOverflows / SubOverflows say when the exact result      *)
(*    leaves 0..2^64-1.  Rust panics there when the crate is built with    *)
(*    overflow checks (the dev/test profile) and wraps otherwise (the      *)
(*    release profile): overflow_checks is the profile of the build.       *)
(***************************************************************************)
EXTENDS Integers, Sequences, FiniteSets, TLC

VARIABLES
    segments,        \* Memory.segments: sequence of [start_address, data]
    base_address,    \* Memory.base_address
    overflow_checks, \* build profile: TRUE = arithmetic overflow panics
    panicked,        \* the thread has panicked (no operation follows)
    written,         \* history: addresses a byte was written to
    gpr,             \* Registers.gpr: family index 0..15 -> 64-bit value
    simd_registers,  \* Registers.simd_registers: slot 0..15 -> bits 0..511
    rflags,          \* Registers.rflags: 64-bit value
    rip,             \* Registers.rip: 64-bit value
    last,            \* history: the last operation, its inputs and result
    nops             \* history: number of operations performed

vars ==
    <<segments, base_address, overflow_checks, panicked, written, gpr, simd_registers,
      rflags, rip, last, nops>>


----------------------------------------------------------------------------
(* Bounds of the model *)

MaxOps == 2

MaxTopBytes == 24

----------------------------------------------------------------------------
(* usize arithmetic *)

\* x < y on usize
ULt(x, y) == IF (x < 0) = (y < 0) THEN x < y ELSE x >= 0

\* x + y exceeds usize::MAX
AddOverflows(x, y) == (x < 0 /\ y < 0) \/ (((x < 0) # (y < 0)) /\ x + y >= 0)

\* x - y is below zero
SubOverflows(x, y) == ULt(x, y)

----------------------------------------------------------------------------
(* Bit vectors *)

Bits(w) == 0..(w - 1)

Zero(w) == [j \in Bits(w) |-> FALSE]

\* the w-bit value of the small natural n (n < 2^30)
FromNat(w, n) == [j \in Bits(w) |-> IF j < 30 THEN (n \div (2 ^ j)) % 2 = 1 ELSE FALSE]

----------------------------------------------------------------------------
(* MemoryIO: little-endian serialisation *)

MemTypes == {"u8", "u16", "u32", "u64", "u128", "u256", "u512"}

size(T) ==
    CASE T = "u8" -> 1
      [] T = "u16" -> 2
      [] T = "u32" -> 4
      [] T = "u64" -> 8
      [] T = "u128" -> 16
      [] T = "u256" -> 32
      [] T = "u512" -> 64

\* byte i (0-based) of the little-endian encoding of v
ByteOf(v, i) ==
    LET b(k) == IF v[8 * i + k] THEN 2 ^ k ELSE 0
    IN  b(0) + b(1) + b(2) + b(3) + b(4) + b(5) + b(6) + b(7)

to_bytes(T, v) == SubSeq([i \in 1..size(T) |-> ByteOf(v, i - 1)], 1, size(T))

from_bytes(T, bytes) ==
    [j \in Bits(8 * size(T)) |-> (bytes[(j \div 8) + 1] \div (2 ^ (j % 8))) % 2 = 1]

----------------------------------------------------------------------------
(* Memory *)

DEFAULT_SIZE == 512

Ok(x) == [panic |-> FALSE, val |-> x]

Panic(x) == [panic |-> TRUE, val |-> x]

\* find_segment: the loop stops at the first index (1-based) whose segment
\* holds real_address (Some(index)) or whose end start + len overflows under
\* overflow checks (panic).  The && short-circuits: start + len is computed only
\* when real_address >= start.  val = 0 stands for None.
find_segment(segs, real_address) ==
    LET start(i) == segs[i].start_address
        len(i) == Len(segs[i].data)
        reaches(i) == ~ULt(real_address, start(i))
        overflows(i) == reaches(i) /\ overflow_checks /\ AddOverflows(start(i), len(i))
        holds(i) == reaches(i) /\ ULt(real_address, start(i) + len(i))
        stops == {i \in 1..Len(segs) : overflows(i) \/ holds(i)}
    IN  IF stops = {} THEN Ok(0)
        ELSE LET index == CHOOSE i \in stops : \A j \in stops : i <= j
             IN  IF overflows(index) THEN Panic(0) ELSE Ok(index)

read_byte(segs, address) ==
    IF overflow_checks /\ SubOverflows(address, base_address) THEN Panic(0)
    ELSE LET real_address == address - base_address
             f == find_segment(segs, real_address)
         IN  IF f.panic THEN Panic(0)
             ELSE IF f.val # 0
                  THEN Ok(segs[f.val].data[real_address - segs[f.val].start_address + 1])
                  ELSE Ok(0)

\* Vec::sort_by(|a, b| a.start_address.cmp(&b.start_address)), a stable sort:
\* the element at index k moves behind the elements with a smaller start and
\* the earlier elements with the same start
sort_by_start_address(segs) ==
    LET n == Len(segs)
        place(k) ==
            1 + Cardinality({j \in 1..n :
                    \/ ULt(segs[j].start_address, segs[k].start_address)
                    \/ (j < k /\ segs[j].start_address = segs[k].start_address)})
        places == SubSeq([k \in 1..n |-> place(k)], 1, n)
    IN  SubSeq([p \in 1..n |-> segs[CHOOSE k \in 1..n : places[k] = p]], 1, n)

\* one iteration of the merge loop of write_byte.  acc holds the segments up to
\* the loop index i (acc[Len(acc)] is segments[i]) and rest the segments after
\* it: the first of rest is appended to segments[i] and removed, or i moves on.
\* val = <<acc, rest>>.
merge_step_dropping(acc, rest) ==
    LET i == Len(acc)
        start == acc[i].start_address
        len == Len(acc[i].data)
        next == rest[1]
    IN  IF overflow_checks /\ AddOverflows(start, len) THEN Panic(<<acc, rest>>)
        ELSE IF start + len = next.start_address
        THEN Ok(<<acc, Tail(rest)>>)
        ELSE Ok(<<Append(acc, next), Tail(rest)>>)

merge_step(acc, rest) ==
    LET i == Len(acc)
        start == acc[i].start_address
        len == Len(acc[i].data)
        next == rest[1]
    IN  IF overflow_checks /\ AddOverflows(start, len) THEN Panic(<<acc, rest>>)
        ELSE IF start + len = next.start_address
        THEN Ok(<<[acc EXCEPT ![i].data = acc[i].data \o next.data], Tail(rest)>>)
        ELSE Ok(<<Append(acc, next), Tail(rest)>>)

\* n iterations of the merge loop (split in two halves, the first half first,
\* to keep the evaluation shallow); the loop ends at the first panic
RECURSIVE merge_steps(_, _, _)
merge_steps(acc, rest, n) ==
    IF n = 0 THEN Ok(<<acc, rest>>)
    ELSE IF n = 1 THEN merge_step(acc, rest)
    ELSE LET r == merge_steps(acc, rest, n \div 2)
         IN  IF r.panic THEN r ELSE merge_steps(r.val[1], r.val[2], n - (n \div 2))

\* the merge loop of write_byte: while i + 1 < segments.len()
merge_segments(segs) ==
    IF Len(segs) < 2 THEN Ok(segs)
    ELSE LET r == merge_steps(<<segs[1]>>, Tail(segs), Len(segs) - 1)
         IN  [panic |-> r.panic, val |-> r.val[1] \o r.val[2]]

new_segment_unaligned(real_address, value) ==
    LET adjusted_address == real_address
        new_data == SubSeq([k \in 1..DEFAULT_SIZE |-> 0], 1, DEFAULT_SIZE)
    IN  [start_address |-> adjusted_address,
         data |-> [new_data EXCEPT ![real_address - adjusted_address + 1] = value]]

new_segment(real_address, value) ==
    LET adjusted_address == (real_address \div DEFAULT_SIZE) * DEFAULT_SIZE
        new_data == SubSeq([k \in 1..DEFAULT_SIZE |-> 0], 1, DEFAULT_SIZE)
    IN  [start_address |-> adjusted_address,
         data |-> [new_data EXCEPT ![real_address - adjusted_address + 1] = value]]

write_byte(segs, address, value) ==
    IF overflow_checks /\ SubOverflows(address, base_address) THEN Panic(segs)
    ELSE LET real_address == address - base_address
             f == find_segment(segs, real_address)
         IN  IF f.panic THEN Panic(segs)
             ELSE IF f.val # 0
                  THEN LET start == segs[f.val].start_address
                       IN  merge_segments(
                               [segs EXCEPT ![f.val].data[real_address - start + 1] = value])
                  ELSE merge_segments(
                           sort_by_start_address(Append(segs, new_segment(real_address, value))))

\* the loop of Memory::write for i in lo..hi-1, in ascending order of i (the
\* range is split in two halves, the lower half first, to keep the evaluation
\* shallow); it ends at the first panic
RECURSIVE write_bytes_range(_, _, _, _, _)
write_bytes_range(segs, address, bytes, lo, hi) ==
    IF lo >= hi THEN Ok(segs)
    ELSE IF hi = lo + 1
    THEN IF overflow_checks /\ AddOverflows(address, lo) THEN Panic(segs)
         ELSE write_byte(segs, address + lo, bytes[lo + 1])
    ELSE LET mid == (lo + hi) \div 2
             r == write_bytes_range(segs, address, bytes, lo, mid)
         IN  IF r.panic THEN r ELSE write_bytes_range(r.val, address, bytes, mid, hi)

write(T, segs, address, value) ==
    LET bytes == to_bytes(T, value)
    IN  write_bytes_range(segs, address, bytes, 0, Len(bytes))

\* Memory::read: the loop reads the bytes at address + i, i < size, and ends at
\* the first panic; it changes nothing, so the panics of all i decide the result
read(T, segs, address) ==
    LET n == size(T)
        rs == SubSeq([i \in 1..n |-> read_byte(segs, address + (i - 1))], 1, n)
    IN  IF \E i \in 1..n : (overflow_checks /\ AddOverflows(address, i - 1)) \/ rs[i].panic
        THEN Panic(Zero(8 * n))
        ELSE Ok(from_bytes(T, SubSeq([i \in 1..n |-> rs[i].val], 1, n)))

\* Memory::read_vec: as read, element by element at stride size
read_vec(T, segs, address, number_of_value) ==
    LET n == number_of_value
        rs == SubSeq([i \in 1..n |-> read(T, segs, address + (i - 1) * size(T))], 1, n)
    IN  IF \E i \in 1..n :
               (overflow_checks /\ AddOverflows(address, (i - 1) * size(T))) \/ rs[i].panic
        THEN Panic(<<>>)
        ELSE Ok(SubSeq([i \in 1..n |-> rs[i].val], 1, n))

\* the loop of Memory::write_vec from element i (0-based)
RECURSIVE write_vec_from(_, _, _, _, _)
write_vec_from(T, segs, address, values, i) ==
    IF i >= Len(values) THEN Ok(segs)
    ELSE IF overflow_checks /\ AddOverflows(address, i * size(T)) THEN Panic(segs)
    ELSE LET r == write(T, segs, address + i * size(T), values[i + 1])
         IN  IF r.panic THEN r ELSE write_vec_from(T, r.val, address, values, i + 1)

write_vec(T, segs, address, values) == write_vec_from(T, segs, address, values, 0)

----------------------------------------------------------------------------
(* General purpose registers *)

\* enum GPRName, in declaration order: `name as usize` is the 0-based position
GPRNames ==
    << "RAX", "RBX", "RCX", "RDX", "RSI", "RDI", "RBP", "RSP",
       "R8", "R9", "R10", "R11", "R12", "R13", "R14", "R15",
       "EAX", "EBX", "ECX", "EDX", "ESI", "EDI", "EBP", "ESP",
       "R8D", "R9D", "R10D", "R11D", "R12D", "R13D", "R14D", "R15D",
       "AX", "BX", "CX", "DX", "SI", "DI", "BP", "SP",
       "R8W", "R9W", "R10W", "R11W", "R12W", "R13W", "R14W", "R15W",
       "AH", "BH", "CH", "DH", "AL", "BL", "CL", "DL", "SIL", "DIL", "BPL", "SPL",
       "R8B", "R9B", "R10B", "R11B", "R12B", "R13B", "R14B", "R15B" >>

GPRNameSet == {GPRNames[i] : i \in DOMAIN GPRNames}

as_usize(reg_name) == (CHOOSE i \in DOMAIN GPRNames : GPRNames[i] = reg_name) - 1

\* first macro argument list of set_gpr_value / get_gpr_value: r64, r32, r16, r8_l, r8_h
LegacyGroups ==
    { <<"RAX", "EAX", "AX", "AL", "AH">>,
      <<"RBX", "EBX", "BX", "BL", "BH">>,
      <<"RCX", "ECX", "CX", "CL", "CH">>,
      <<"RDX", "EDX", "DX", "DL", "DH">> }

ExtendedGroups_swapped ==
    { <<"R8", "R8D", "R8W", "R8B">>,
      <<"R9", "R9D", "R9W", "R9B">>,
      <<"R10", "R10D", "R10W", "R10B">>,
      <<"R11", "R11D", "R11W", "R11B">>,
      <<"R12", "R12D", "R12W", "R12B">>,
      <<"R13", "R13D", "R13W", "R13B">>,
      <<"R14", "R14D", "R14W", "R14B">>,
      <<"R15", "R15D", "R15W", "R15B">>,
      <<"RSP", "ESP", "SP", "SPL">>,
      <<"RBP", "EBP", "BP", "BPL">>,
      <<"RSI", "ESI", "SI", "DIL">>,
      <<"RDI", "EDI", "DI", "SIL">> }

\* second macro argument list: r64_, r32_, r16_, r8_
ExtendedGroups ==
    { <<"R8", "R8D", "R8W", "R8B">>,
      <<"R9", "R9D", "R9W", "R9B">>,
      <<"R10", "R10D", "R10W", "R10B">>,
      <<"R11", "R11D", "R11W", "R11B">>,
      <<"R12", "R12D", "R12W", "R12B">>,
      <<"R13", "R13D", "R13W", "R13B">>,
      <<"R14", "R14D", "R14W", "R14B">>,
      <<"R15", "R15D", "R15W", "R15B">>,
      <<"RSP", "ESP", "SP", "SPL">>,
      <<"RBP", "EBP", "BP", "BPL">>,
      <<"RSI", "ESI", "SI", "SIL">>,
      <<"RDI", "EDI", "DI", "DIL">> }

\* a u64 literal from its 16 hexadecimal digits, most significant first
Hex64(digits) == [j \in Bits(64) |-> (digits[16 - (j \div 4)] \div (2 ^ (j % 4))) % 2 = 1]

x00000000_FFFFFFFF == Hex64(<<0, 0, 0, 0, 0, 0, 0, 0, 15, 15, 15, 15, 15, 15, 15, 15>>)

x00000000_0000FFFF == Hex64(<<0, 0, 0, 0, 0, 0, 0, 0, 0, 0, 0, 0, 15, 15, 15, 15>>)

x00000000_000000FF == Hex64(<<0, 0, 0, 0, 0, 0, 0, 0, 0, 0, 0, 0, 0, 0, 15, 15>>)

x00000000_0000FF00 == Hex64(<<0, 0, 0, 0, 0, 0, 0, 0, 0, 0, 0, 0, 15, 15, 0, 0>>)

xFFFFFFFF_FFFF0000 == Hex64(<<15, 15, 15, 15, 15, 15, 15, 15, 15, 15, 15, 15, 0, 0, 0, 0>>)

xFFFFFFFF_FFFFFF00 == Hex64(<<15, 15, 15, 15, 15, 15, 15, 15, 15, 15, 15, 15, 15, 15, 0, 0>>)

xFFFFFFFF_FFFF00FF == Hex64(<<15, 15, 15, 15, 15, 15, 15, 15, 15, 15, 15, 15, 0, 0, 15, 15>>)

\* u64 operators &, |, <<, >>
BitAnd(a, b) == [j \in DOMAIN a |-> a[j] /\ b[j]]

BitOr(a, b) == [j \in DOMAIN a |-> a[j] \/ b[j]]

Shl(a, n) == [j \in DOMAIN a |-> IF j >= n THEN a[j - n] ELSE FALSE]

Shr(a, n) == [j \in DOMAIN a |-> IF j + n \in DOMAIN a THEN a[j + n] ELSE FALSE]

\* the match arm of register_set! / register_get! that reg_name selects:
\* the group and the position of reg_name in it (2 = r32, 3 = r16, 4 = r8 low,
\* 5 = r8 high), or position 0 for the `_` arm
match_arm(reg_name) ==
    LET Groups == LegacyGroups \cup ExtendedGroups
        hits == {<<g, k>> \in Groups \X (2..5) : k <= Len(g) /\ g[k] = reg_name}
    IN  IF hits = {} THEN <<(<<reg_name>>), 0>> ELSE CHOOSE h \in hits : TRUE

\* the value register_set! stores for a 32-bit name
set_r32_merge(old, value) == BitOr(BitAnd(old, Shl(x00000000_FFFFFFFF, 32)), BitAnd(value, x00000000_FFFFFFFF))

set_r32(old, value) == BitAnd(value, x00000000_FFFFFFFF)

\* the value register_set! stores for a 16-bit name
set_r16_zero_extend(old, value) == BitAnd(value, x00000000_0000FFFF)

set_r16(old, value) == BitOr(BitAnd(old, xFFFFFFFF_FFFF0000), BitAnd(value, x00000000_0000FFFF))

\* the value register_set! stores for a low-byte name
set_r8_l(old, value) == BitOr(BitAnd(old, xFFFFFFFF_FFFFFF00), BitAnd(value, x00000000_000000FF))

\* the value register_set! stores for a high-byte name
set_r8_h_unshifted(old, value) == BitOr(BitAnd(old, xFFFFFFFF_FFFF00FF), BitAnd(value, x00000000_0000FF00))

set_r8_h(old, value) == BitOr(BitAnd(old, xFFFFFFFF_FFFF00FF), BitAnd(Shl(value, 8), x00000000_0000FF00))

\* Registers::set_gpr_value (register_set!); indexing gpr out of 0..15 panics
set_gpr_value(g, reg_name, value) ==
    LET arm == match_arm(reg_name)
        r64 == as_usize(arm[1][1])
    IN  IF r64 \notin DOMAIN g THEN Panic(g)
        ELSE Ok([g EXCEPT ![r64] =
                 CASE arm[2] = 2 -> set_r32(g[r64], value)
                   [] arm[2] = 3 -> set_r16(g[r64], value)
                   [] arm[2] = 4 -> set_r8_l(g[r64], value)
                   [] arm[2] = 5 -> set_r8_h(g[r64], value)
                   [] OTHER -> value])

\* Registers::get_gpr_value (register_get!)
get_gpr_value(g, reg_name) ==
    LET arm == match_arm(reg_name)
        r64 == as_usize(arm[1][1])
    IN  IF r64 \notin DOMAIN g THEN Panic(Zero(64))
        ELSE Ok(CASE arm[2] = 2 -> BitAnd(g[r64], x00000000_FFFFFFFF)
                  [] arm[2] = 3 -> BitAnd(g[r64], x00000000_0000FFFF)
                  [] arm[2] = 4 -> BitAnd(g[r64], x00000000_000000FF)
                  [] arm[2] = 5 -> Shr(BitAnd(g[r64], x00000000_0000FF00), 8)
                  [] OTHER -> g[r64])

----------------------------------------------------------------------------
(* Flags register and instruction pointer *)

\* enum FLAGSName
FLAGSNames == {"RFLAGS", "EFLAGS", "FLAGS"}

\* enum IPName
IPNames == {"RIP", "EIP", "IP"}

xFFFFFFFF_00000000 == Hex64(<<15, 15, 15, 15, 15, 15, 15, 15, 0, 0, 0, 0, 0, 0, 0, 0>>)

set_flags_value_masking(flags, reg_name, value) ==
    CASE reg_name = "RFLAGS" -> value
      [] reg_name = "EFLAGS" -> BitAnd(value, x00000000_FFFFFFFF)
      [] reg_name = "FLAGS" -> BitAnd(value, x00000000_0000FFFF)

\* Registers::set_flags_value: the new value of rflags
set_flags_value(flags, reg_name, value) ==
    CASE reg_name = "RFLAGS" -> value
      [] reg_name = "EFLAGS" ->
             BitOr(BitAnd(flags, xFFFFFFFF_00000000), BitAnd(value, x00000000_FFFFFFFF))
      [] reg_name = "FLAGS" ->
             BitOr(BitAnd(flags, xFFFFFFFF_FFFF0000), BitAnd(value, x00000000_0000FFFF))

\* Registers::get_flags_value
get_flags_value(flags, reg_name) ==
    CASE reg_name = "RFLAGS" -> flags
      [] reg_name = "EFLAGS" -> BitAnd(flags, x00000000_FFFFFFFF)
      [] reg_name = "FLAGS" -> BitAnd(flags, x00000000_0000FFFF)

\* Registers::set_ip_value: the new value of rip
set_ip_value(ip, reg_name, value) ==
    CASE reg_name = "RIP" -> value
      [] reg_name = "EIP" -> BitAnd(value, x00000000_FFFFFFFF)
      [] reg_name = "IP" -> BitAnd(value, x00000000_0000FFFF)

\* Registers::get_ip_value
get_ip_value(ip, reg_name) ==
    CASE reg_name = "RIP" -> ip
      [] reg_name = "EIP" -> BitAnd(ip, x00000000_FFFFFFFF)
      [] reg_name = "IP" -> BitAnd(ip, x00000000_0000FFFF)

----------------------------------------------------------------------------
(* SIMD registers *)

\* SIMDRegister::new(size): BitVec::from_elem(size, false)
SIMDRegister_new(sz) == [p \in 0..(sz - 1) |-> FALSE]

\* enum VecRegName
VecRegNames == {"XMM", "YMM", "ZMM"}

\* the width matched against register_bits in the arm of a register type
arm_bits(reg_type) ==
    CASE reg_type = "XMM" -> 128
      [] reg_type = "YMM" -> 256
      [] reg_type = "ZMM" -> 512

\* std::mem::size_of::<T>() * 8
type_bits(T) == size(T) * 8

\* self.bits.len()
bits_len(bits) == Cardinality(DOMAIN bits)

\* Option<T>
None == <<>>

Some(x) == <<x>>

\* the result of an operation on the registers: returned value and registers
Done(ret, regs) == Ok([ret |-> ret, regs |-> regs])

\* a panic of an operation on the registers, which are left as they were
Abort(regs) == Panic([ret |-> None, regs |-> regs])

\* SIMDRegister::set_bit: self.bits.set(position, value)
SIMDRegister_set_bit_zeroing(bits, position, value) ==
    [p \in DOMAIN bits |-> IF p = position THEN value ELSE p < 128 /\ bits[p]]

SIMDRegister_set_bit(bits, position, value) ==
    [p \in DOMAIN bits |-> IF p = position THEN value ELSE bits[p]]

\* SIMDRegister::get_bit: self.bits[position]
SIMDRegister_get_bit(bits, position) == bits[position]

\* SIMDRegister::clear: set_bit(i, false) for every i in 0..self.bits.len()
SIMDRegister_clear(bits) == [p \in DOMAIN bits |-> FALSE]

\* the guards of the match arms of Registers::set_bit and Registers::get_bit:
\* XMM if bit_position < 128, YMM if bit_position < 256, ZMM if
\* bit_position < 512 (bit_position is a usize)
bit_guard_physical(reg_type, bit_position) ==
    CASE reg_type = "XMM" -> ULt(bit_position, 512)
      [] reg_type = "YMM" -> ULt(bit_position, 512)
      [] reg_type = "ZMM" -> ULt(bit_position, 512)

bit_guard(reg_type, bit_position) ==
    CASE reg_type = "XMM" -> ULt(bit_position, 128)
      [] reg_type = "YMM" -> ULt(bit_position, 256)
      [] reg_type = "ZMM" -> ULt(bit_position, 512)

\* Registers::set_bit: the arm of the register type sets the bit of the
\* slot; any other case prints a message and changes nothing.  Indexing
\* simd_registers outside 0..15 panics.
set_bit(regs, reg_type, reg_index, bit_position, value) ==
    IF ~bit_guard(reg_type, bit_position) THEN Done(None, regs)
    ELSE IF reg_index \notin DOMAIN regs THEN Abort(regs)
    ELSE Done(None,
              [regs EXCEPT ![reg_index] =
                   SIMDRegister_set_bit(regs[reg_index], bit_position, value)])

\* Registers::get_bit: Some(bit) in the arm of the register type, else None
get_bit(regs, reg_type, reg_index, bit_position) ==
    IF ~bit_guard(reg_type, bit_position) THEN Done(None, regs)
    ELSE IF reg_index \notin DOMAIN regs THEN Abort(regs)
    ELSE Done(Some(SIMDRegister_get_bit(regs[reg_index], bit_position)), regs)

\* Registers::clear
clear(regs, reg_index) ==
    IF reg_index \notin DOMAIN regs THEN Abort(regs)
    ELSE Done(None, [regs EXCEPT ![reg_index] = SIMDRegister_clear(regs[reg_index])])

\* SIMDRegister::get_sections
get_sections(bits, T) ==
    LET n == bits_len(bits)
        count == (n + type_bits(T) - 1) \div type_bits(T)
        section_value(i) == [j \in Bits(type_bits(T)) |-> i + j < n /\ bits[i + j]]
    IN  SubSeq([k \in 1..count |-> section_value((k - 1) * type_bits(T))], 1, count)

\* the bit SIMDRegister::set_by_sections leaves at position p: set_bit(p, true)
\* is called when the bit of the section is 1, and nothing otherwise
section_bit(old, b) == old \/ b

\* SIMDRegister::set_by_sections: <<returned value, bits>>
SIMDRegister_set_by_sections(bits, T, sections) ==
    IF type_bits(T) * Len(sections) # bits_len(bits) THEN <<FALSE, bits>>
    ELSE <<TRUE,
           [p \in DOMAIN bits |->
               section_bit(bits[p], sections[(p \div type_bits(T)) + 1][p % type_bits(T)])]>>

\* the usize values a..b with a <= b as they are iterated up to the first
\* i >= len, where the loops over a bit range break
in_range_to_len(i, start_index, end_index, len) ==
    i >= 0 /\ i < len /\ start_index >= 0 /\ start_index <= i

in_range(i, start_index, end_index, len) ==
    /\ i >= 0 /\ i < len
    /\ start_index >= 0 /\ start_index <= i
    /\ ~ULt(end_index, i)

\* T::from(1u8) << n: the positions of the bits of the result (one or none).
\* A shift of a primitive integer by its width or more panics with overflow
\* checks and uses n modulo the width without them; U256 / U512 give zero.
shl_one_overflows(T, n) ==
    overflow_checks /\ n >= type_bits(T) /\ T \notin {"u256", "u512"}

shl_one(T, n) ==
    IF n < type_bits(T) THEN {n}
    ELSE IF T \in {"u256", "u512"} THEN {}
    ELSE {n % type_bits(T)}

\* the position in the result of get_by_index of the bit at index i
packed_position_absolute(i, start_index) == i

packed_position(i, start_index) == i - start_index

\* SIMDRegister::get_by_index: the value, or a panic
get_by_index(bits, T, start_index, end_index) ==
    IF overflow_checks /\ SubOverflows(end_index, start_index) THEN Panic(Zero(type_bits(T)))
    ELSE IF overflow_checks /\ AddOverflows(end_index - start_index, 1)
    THEN Panic(Zero(type_bits(T)))
    ELSE LET sz == end_index - start_index + 1
             len == bits_len(bits)
             ones == {i \in DOMAIN bits : in_range(i, start_index, end_index, len) /\ bits[i]}
         IN  IF ULt(type_bits(T), sz) THEN Panic(Zero(type_bits(T)))
             ELSE IF \E i \in ones : shl_one_overflows(T, packed_position(i, start_index))
             THEN Panic(Zero(type_bits(T)))
             ELSE Ok([j \in Bits(type_bits(T)) |->
                         \E i \in ones : j \in shl_one(T, packed_position(i, start_index))])

\* the bit SIMDRegister::set_by_index stores at index i of the range
index_bit_merged(old, T, start_index, i, value) ==
    IF i - start_index >= type_bits(T) THEN old ELSE value[i - start_index]

index_bit(old, T, start_index, i, value) ==
    IF i - start_index >= type_bits(T) THEN FALSE ELSE value[i - start_index]

\* SIMDRegister::set_by_index: the bits afterwards
set_by_index(bits, T, start_index, end_index, value) ==
    LET len == bits_len(bits)
    IN  [i \in DOMAIN bits |->
            IF in_range(i, start_index, end_index, len)
            THEN index_bit(bits[i], T, start_index, i, value)
            ELSE bits[i]]

\* Registers::get_by_sections
get_by_sections(regs, reg_type, reg_index, T) ==
    IF reg_index \notin DOMAIN regs THEN Abort(regs)
    ELSE LET sections == get_sections(regs[reg_index], T)
             n == arm_bits(reg_type) \div type_bits(T)
         IN  IF n > Len(sections) THEN Abort(regs)
             ELSE Done(Some(SubSeq(sections, 1, n)), regs)

\* Registers::set_by_sections; 512 - register_bits is computed first, in usize
set_by_sections(regs, reg_type, reg_index, T, sections) ==
    LET register_bits == type_bits(T) * Len(sections)
    IN  IF overflow_checks /\ SubOverflows(512, register_bits) THEN Abort(regs)
        ELSE IF register_bits # arm_bits(reg_type) THEN Done(FALSE, regs)
        ELSE IF reg_index \notin DOMAIN regs THEN Abort(regs)
        ELSE LET fill_sections == (512 - register_bits) \div type_bits(T)
                 fill == sections \o [k \in 1..fill_sections |-> Zero(type_bits(T))]
             IN  Done(TRUE, [regs EXCEPT ![reg_index] =
                                 SIMDRegister_set_by_sections(@, T, fill)[2]])

----------------------------------------------------------------------------
(* Selectors: a string is the sequence of its characters *)

Min(S) == CHOOSE x \in S : \A y \in S : x <= y

\* Regex \[(.*?):(.*?)\] searched in s: the leftmost match with the shortest
\* first group and then the shortest second group; <<>> when nothing matches,
\* otherwise <<text of group 1, text of group 2>>
regex_captures(s) ==
    LET any(a, b) == \A k \in a..b : s[k] # "\n"
        closes(j) == {k \in (j + 1)..Len(s) : s[k] = "]" /\ any(j + 1, k - 1)}
        colons(i) == {j \in (i + 1)..Len(s) :
                         s[j] = ":" /\ any(i + 1, j - 1) /\ closes(j) # {}}
        opens == {i \in 1..Len(s) : s[i] = "[" /\ colons(i) # {}}
    IN  IF opens = {} THEN None
        ELSE LET i == Min(opens)
                 j == Min(colons(i))
                 k == Min(closes(j))
             IN  <<SubSeq(s, i + 1, j - 1), SubSeq(s, j + 1, k - 1)>>

DecimalDigits == <<"0", "1", "2", "3", "4", "5", "6", "7", "8", "9">>

is_digit(c) == \E d \in 1..10 : DecimalDigits[d] = c

digit_value(c) == (CHOOSE d \in 1..10 : DecimalDigits[d] = c) - 1

\* the number written by at most 9 decimal digits
RECURSIVE decimal(_)
decimal(ds) ==
    IF ds = <<>> THEN 0
    ELSE 10 * decimal(SubSeq(ds, 1, Len(ds) - 1)) + digit_value(ds[Len(ds)])

\* str::parse::<usize>: an optional + and one or more decimal digits, of a
\* value up to usize::MAX = 18 446744073 709551615; <<>> for an error,
\* otherwise <<the usize>>.  The values the model holds are those below 10^9
\* and those from 2^64 - 709551616 on.
parse_usize(str) ==
    LET ds == IF str # <<>> /\ str[1] = "+" THEN Tail(str) ELSE str
        nonzero == {i \in 1..Len(ds) : ds[i] # "0"}
        sig == IF nonzero = {} THEN <<>> ELSE SubSeq(ds, Min(nonzero), Len(ds))
        hi == decimal(SubSeq(sig, 1, 2))
        mid == decimal(SubSeq(sig, 3, 11))
        lo == decimal(SubSeq(sig, 12, 20))
    IN  IF ds = <<>> \/ \E i \in 1..Len(ds) : ~is_digit(ds[i]) THEN None
        ELSE CASE Len(sig) <= 9 -> Some(decimal(sig))
               [] Len(sig) > 20 -> None
               [] Len(sig) = 20 /\ hi > 18 -> None
               [] Len(sig) = 20 /\ hi = 18 /\ mid > 446744073 -> None
               [] Len(sig) = 20 /\ hi = 18 /\ mid = 446744073 /\ lo > 709551615 -> None
               [] Len(sig) = 20 /\ hi = 18 /\ mid = 446744073 /\ lo <= 709551615 ->
                      Some(lo - 709551616)

\* if s == "MAX" { 511 } else { s.parse::<usize>().unwrap_or(0) }
token_value(str) ==
    IF str = <<"M", "A", "X">> THEN 511
    ELSE IF parse_usize(str) = None THEN 0
    ELSE parse_usize(str)[1]

\* extract_values: None, or Some(<<a_value, b_value>>)
extract_values(s) ==
    LET cap == regex_captures(s)
    IN  IF cap = None THEN None
        ELSE Some(<<token_value(cap[1]), token_value(cap[2])>>)

\* Registers::get_by_selector
get_by_selector(regs, reg_index, T, selector) ==
    LET ev == extract_values(selector)
    IN  IF ev = None THEN Done(None, regs)
        ELSE IF reg_index \notin DOMAIN regs THEN Abort(regs)
        ELSE LET r == get_by_index(regs[reg_index], T, ev[1][2], ev[1][1])
             IN  IF r.panic THEN Abort(regs) ELSE Done(Some(r.val), regs)

\* Registers::set_by_selector
set_by_selector_swapped(regs, reg_index, T, selector, value) ==
    LET ev == extract_values(selector)
    IN  IF ev = None THEN Done(FALSE, regs)
        ELSE IF reg_index \notin DOMAIN regs THEN Abort(regs)
        ELSE Done(TRUE, [regs EXCEPT ![reg_index] =
                             set_by_index(@, T, ev[1][1], ev[1][2], value)])

set_by_selector(regs, reg_index, T, selector, value) ==
    LET ev == extract_values(selector)
    IN  IF ev = None THEN Done(FALSE, regs)
        ELSE IF reg_index \notin DOMAIN regs THEN Abort(regs)
        ELSE Done(TRUE, [regs EXCEPT ![reg_index] =
                             set_by_index(@, T, ev[1][2], ev[1][1], value)])

----------------------------------------------------------------------------
(* Inputs of the operations *)

\* CPU::default(): CPU::new(0x00400000)
DEFAULT_BASE == 4194304

\* base addresses handed to CPU::new / Memory::new
Bases == {0, DEFAULT_BASE}

\* offsets from the base address: first and last byte of block 0, first of block 2
MemOffsets == {0, 511, 1024}

\* addresses at the top of the address space: usize::MAX and usize::MAX - 512
TopAddresses == {-1, -513}

\* an address below the default base address (and the base address 0 itself)
LowAddresses == {0}

\* the addresses handed to an operation that accesses n bytes; the top of the
\* address space is visited by the accesses of at most MaxTopBytes bytes
Addresses(n) ==
    {base_address + o : o \in MemOffsets} \cup LowAddresses
        \cup (IF n <= MaxTopBytes THEN TopAddresses ELSE {})

PatA(w) == [j \in Bits(w) |-> (j % 3 = 0) \/ (j % 7 = 1)]

Ones(w) == [j \in Bits(w) |-> TRUE]

\* values handed to write: two of each type up to u64, one of the wider types
Values(T) ==
    IF size(T) <= 8 THEN {PatA(8 * size(T)), Ones(8 * size(T))} ELSE {PatA(8 * size(T))}

\* element types of the vector operations
VecTypes == {"u8", "u32", "u64"}

\* vectors handed to write_vec: a mixed one and, for u64, [0, 1, .., 7]
VecValues(T) ==
    {<<PatA(8 * size(T)), Ones(8 * size(T)), FromNat(8 * size(T), 1)>>}
        \cup (IF T = "u64" THEN {[i \in 1..8 |-> FromNat(64, i - 1)]} ELSE {})

\* numbers of values handed to read_vec
ReadCounts(T) == IF T = "u32" THEN {6, 16} ELSE {3}

x12345678_9ABCDEF0 == Hex64(<<1, 2, 3, 4, 5, 6, 7, 8, 9, 10, 11, 12, 13, 14, 15, 0>>)

\* values handed to set_gpr_value, set_flags_value and set_ip_value
GprValues == {x12345678_9ABCDEF0, Ones(64)}

\* slots of the SIMD register file the operations are applied to
SimdSlots == {2, 15}

\* lane types handed to set_by_sections / get_by_sections
SectionTypes == {"u8", "u32", "u256"}

\* the lane 0x80..0 of type T (only the top bit set)
TopBit(T) == [j \in Bits(type_bits(T)) |-> j = type_bits(T) - 1]

\* numbers of lanes handed to set_by_sections: those filling 128, 256 and 512
\* bits, 3 lanes, and one lane more than 512 bits
LaneCounts(T) ==
    {128 \div type_bits(T), 256 \div type_bits(T), 512 \div type_bits(T), 3,
     (512 \div type_bits(T)) + 1}

\* lane vectors handed to set_by_sections
LaneVectors(T) ==
    {SubSeq([k \in 1..n |-> TopBit(T)], 1, n) : n \in LaneCounts(T)}
        \cup {SubSeq([k \in 1..n |-> PatA(type_bits(T))], 1, n) :
                  n \in LaneCounts(T) \cap {128 \div type_bits(T), 512 \div type_bits(T)}}

\* the lanes the selector test fills a register with beforehand: four lanes
\* 0x12345678 (XMM), and lanes of all ones (ZMM)
x12345678 == [j \in Bits(32) |-> x12345678_9ABCDEF0[j + 32]]

FillVectors ==
    {<<"XMM", "u32", <<x12345678, x12345678, x12345678, x12345678>>>>,
     <<"ZMM", "u256", <<Ones(256), Ones(256)>>>>}

\* bit positions handed to set_bit / get_bit: the first and the last bit of
\* each view, the first position beyond each view, and usize::MAX
BitPositions == {0, 127, 128, 255, 256, 511, 512, -1}

\* lane types handed to get_by_sections after set_bit
BitSectionTypes == {"u64", "u256"}

\* the slot the selector operations are applied to
SelectorSlots == {15}

\* value types handed to set_by_selector / get_by_selector
SelectorTypes == {"u8", "u32", "u128"}

\* selector strings handed to set_by_selector / get_by_selector
Selectors ==
    { <<"[", "3", "1", ":", "0", "]">>,
      <<"[", "6", "3", ":", "3", "2", "]">>,
      <<"[", "1", "2", "7", ":", "0", "]">>,
      <<"[", "M", "A", "X", ":", "6", "4", "]">>,
      <<"[", "0", ":", "3", "1", "]">>,
      <<"[", "x", ":", "3", "]">>,
      <<"[", ":", "]">>,
      <<"3", "1", ":", "0">>,
      <<"[", "1", "8", "4", "4", "6", "7", "4", "4", "0", "7", "3", "7", "0", "9", "5", "5",
        "1", "6", "1", "5", ":", "0", "]">> }

\* the record of an operation: op and its inputs (ty, addr, vals, name), its
\* result (res, ok = it returned without panic) and the state it read (old)
NoOp ==
    [op |-> "none", ty |-> "u8", addr |-> 0, vals |-> <<>>, res |-> <<>>,
     name |-> "RAX", ok |-> TRUE, old |-> <<>>,
     reg |-> "ZMM", idx |-> 0, sel |-> <<>>]

----------------------------------------------------------------------------
(* State machine *)

\* CPU::new(base): Registers::new() and Memory::new(base)
Init ==
    /\ segments = <<>>
    /\ base_address \in Bases
    /\ overflow_checks \in BOOLEAN
    /\ panicked = FALSE
    /\ written = {}
    /\ gpr = [i \in 0..15 |-> Zero(64)]
    /\ simd_registers = [i \in 0..15 |-> SIMDRegister_new(512)]
    /\ rflags = Zero(64)
    /\ rip = Zero(64)
    /\ last = NoOp
    /\ nops = 0

\* CPU::default()
InitDefault == Init /\ base_address = DEFAULT_BASE

Step == ~panicked /\ nops < MaxOps /\ nops' = nops + 1

\* memory.write::<T>(address, value)
Write(T, address, value) ==
    /\ Step
    /\ LET r == write(T, segments, address, value)
       IN  /\ segments' = r.val
           /\ panicked' = r.panic
           /\ last' = [NoOp EXCEPT !.op = "write", !.ty = T, !.addr = address,
                                   !.vals = <<value>>, !.ok = ~r.panic]
    /\ written' = written \cup {address + i : i \in 0..(size(T) - 1)}
    /\ UNCHANGED <<base_address, overflow_checks, gpr, simd_registers, rflags, rip>>

\* memory.read::<T>(address)
Read(T, address) ==
    /\ Step
    /\ LET r == read(T, segments, address)
       IN  /\ panicked' = r.panic
           /\ last' = [NoOp EXCEPT !.op = "read", !.ty = T, !.addr = address,
                                   !.res = <<r.val>>, !.ok = ~r.panic]
    /\ UNCHANGED <<segments, base_address, overflow_checks, written, gpr, simd_registers, rflags, rip>>

\* memory.write_vec::<T>(address, values)
WriteVec(T, address, values) ==
    /\ Step
    /\ LET r == write_vec(T, segments, address, values)
       IN  /\ segments' = r.val
           /\ panicked' = r.panic
           /\ last' = [NoOp EXCEPT !.op = "write_vec", !.ty = T, !.addr = address,
                                   !.vals = values, !.ok = ~r.panic]
    /\ written' = written \cup {address + i : i \in 0..(Len(values) * size(T) - 1)}
    /\ UNCHANGED <<base_address, overflow_checks, gpr, simd_registers, rflags, rip>>

\* memory.read_vec::<T>(address, number_of_value)
ReadVec(T, address, number_of_value) ==
    /\ Step
    /\ LET r == read_vec(T, segments, address, number_of_value)
       IN  /\ panicked' = r.panic
           /\ last' = [NoOp EXCEPT !.op = "read_vec", !.ty = T, !.addr = address,
                                   !.res = r.val, !.ok = ~r.panic]
    /\ UNCHANGED <<segments, base_address, overflow_checks, written, gpr, simd_registers, rflags, rip>>

\* registers.set_gpr_value(reg_name, value)
SetGpr(reg_name, value) ==
    /\ Step
    /\ LET r == set_gpr_value(gpr, reg_name, value)
       IN  /\ gpr' = r.val
           /\ panicked' = r.panic
           /\ last' = [NoOp EXCEPT !.op = "set_gpr", !.name = reg_name,
                                   !.vals = <<value>>, !.ok = ~r.panic, !.old = gpr]
    /\ UNCHANGED <<segments, base_address, overflow_checks, written, simd_registers, rflags, rip>>

\* registers.get_gpr_value(reg_name)
GetGpr(reg_name) ==
    /\ Step
    /\ LET r == get_gpr_value(gpr, reg_name)
       IN  /\ panicked' = r.panic
           /\ last' = [NoOp EXCEPT !.op = "get_gpr", !.name = reg_name,
                                   !.res = <<r.val>>, !.ok = ~r.panic]
    /\ UNCHANGED <<segments, base_address, overflow_checks, written, gpr, simd_registers, rflags, rip>>

\* registers.set_flags_value(reg_name, value)
SetFlags(reg_name, value) ==
    /\ Step
    /\ rflags' = set_flags_value(rflags, reg_name, value)
    /\ last' = [NoOp EXCEPT !.op = "set_flags", !.name = reg_name,
                            !.vals = <<value>>, !.old = rflags]
    /\ UNCHANGED <<segments, base_address, overflow_checks, panicked, written, gpr,
                   simd_registers, rip>>

\* registers.get_flags_value(reg_name)
GetFlags(reg_name) ==
    /\ Step
    /\ last' = [NoOp EXCEPT !.op = "get_flags", !.name = reg_name,
                            !.res = <<get_flags_value(rflags, reg_name)>>]
    /\ UNCHANGED <<segments, base_address, overflow_checks, panicked, written, gpr,
                   simd_registers, rflags, rip>>

\* registers.set_ip_value(reg_name, value)
SetIp(reg_name, value) ==
    /\ Step
    /\ rip' = set_ip_value(rip, reg_name, value)
    /\ last' = [NoOp EXCEPT !.op = "set_ip", !.name = reg_name,
                            !.vals = <<value>>, !.old = rip]
    /\ UNCHANGED <<segments, base_address, overflow_checks, panicked, written, gpr,
                   simd_registers, rflags>>

\* registers.get_ip_value(reg_name)
GetIp(reg_name) ==
    /\ Step
    /\ last' = [NoOp EXCEPT !.op = "get_ip", !.name = reg_name,
                            !.res = <<get_ip_value(rip, reg_name)>>]
    /\ UNCHANGED <<segments, base_address, overflow_checks, panicked, written, gpr,
                   simd_registers, rflags, rip>>

\* registers.set_by_sections::<T>(reg_type, reg_index, sections)
SetBySections(reg_type, reg_index, T, sections) ==
    /\ Step
    /\ LET r == set_by_sections(simd_registers, reg_type, reg_index, T, sections)
       IN  /\ simd_registers' = r.val.regs
           /\ panicked' = r.panic
           /\ last' = [NoOp EXCEPT !.op = "set_by_sections", !.reg = reg_type,
                                   !.idx = reg_index, !.ty = T, !.vals = sections,
                                   !.res = <<r.val.ret>>, !.ok = ~r.panic,
                                   !.old = simd_registers[reg_index]]
    /\ UNCHANGED <<segments, base_address, overflow_checks, written, gpr, rflags, rip>>

\* registers.get_by_sections::<T>(reg_type, reg_index)
GetBySections(reg_type, reg_index, T) ==
    /\ Step
    /\ LET r == get_by_sections(simd_registers, reg_type, reg_index, T)
       IN  /\ simd_registers' = r.val.regs
           /\ panicked' = r.panic
           /\ last' = [NoOp EXCEPT !.op = "get_by_sections", !.reg = reg_type,
                                   !.idx = reg_index, !.ty = T,
                                   !.res = <<r.val.ret>>, !.ok = ~r.panic]
    /\ UNCHANGED <<segments, base_address, overflow_checks, written, gpr, rflags, rip>>

\* registers.set_by_selector::<T>(reg_type, reg_index, selector, value)
SetBySelector(reg_type, reg_index, T, selector, value) ==
    /\ Step
    /\ LET r == set_by_selector(simd_registers, reg_index, T, selector, value)
       IN  /\ simd_registers' = r.val.regs
           /\ panicked' = r.panic
           /\ last' = [NoOp EXCEPT !.op = "set_by_selector", !.reg = reg_type,
                                   !.idx = reg_index, !.ty = T, !.sel = selector,
                                   !.vals = <<value>>, !.res = <<r.val.ret>>,
                                   !.ok = ~r.panic, !.old = simd_registers[reg_index]]
    /\ UNCHANGED <<segments, base_address, overflow_checks, written, gpr, rflags, rip>>

\* registers.get_by_selector::<T>(reg_type, reg_index, selector)
GetBySelector(reg_type, reg_index, T, selector) ==
    /\ Step
    /\ LET r == get_by_selector(simd_registers, reg_index, T, selector)
       IN  /\ simd_registers' = r.val.regs
           /\ panicked' = r.panic
           /\ last' = [NoOp EXCEPT !.op = "get_by_selector", !.reg = reg_type,
                                   !.idx = reg_index, !.ty = T, !.sel = selector,
                                   !.res = <<r.val.ret>>, !.ok = ~r.panic]
    /\ UNCHANGED <<segments, base_address, overflow_checks, written, gpr, rflags, rip>>

\* registers.set_bit(reg_type, reg_index, bit_position, value)
SetBit(reg_type, reg_index, bit_position, value) ==
    /\ Step
    /\ LET r == set_bit(simd_registers, reg_type, reg_index, bit_position, value)
       IN  /\ simd_registers' = r.val.regs
           /\ panicked' = r.panic
           /\ last' = [NoOp EXCEPT !.op = "set_bit", !.reg = reg_type,
                                   !.idx = reg_index, !.addr = bit_position,
                                   !.vals = <<value>>, !.ok = ~r.panic,
                                   !.old = simd_registers[reg_index]]
    /\ UNCHANGED <<segments, base_address, overflow_checks, written, gpr, rflags, rip>>

\* registers.get_bit(reg_type, reg_index, bit_position)
GetBit(reg_type, reg_index, bit_position) ==
    /\ Step
    /\ LET r == get_bit(simd_registers, reg_type, reg_index, bit_position)
       IN  /\ simd_registers' = r.val.regs
           /\ panicked' = r.panic
           /\ last' = [NoOp EXCEPT !.op = "get_bit", !.reg = reg_type,
                                   !.idx = reg_index, !.addr = bit_position,
                                   !.res = <<r.val.ret>>, !.ok = ~r.panic]
    /\ UNCHANGED <<segments, base_address, overflow_checks, written, gpr, rflags, rip>>

\* registers.clear(reg_index)
Clear(reg_index) ==
    /\ Step
    /\ LET r == clear(simd_registers, reg_index)
       IN  /\ simd_registers' = r.val.regs
           /\ panicked' = r.panic
           /\ last' = [NoOp EXCEPT !.op = "clear", !.idx = reg_index, !.ok = ~r.panic,
                                   !.old = simd_registers[reg_index]]
    /\ UNCHANGED <<segments, base_address, overflow_checks, written, gpr, rflags, rip>>

NextMem ==
    \/ \E T \in MemTypes : \E a \in Addresses(size(T)) : \E v \in Values(T) : Write(T, a, v)
    \/ \E T \in MemTypes : \E a \in Addresses(size(T)) : Read(T, a)
    \/ \E T \in VecTypes : \E vs \in VecValues(T) :
           \E a \in Addresses(Len(vs) * size(T)) : WriteVec(T, a, vs)
    \/ \E T \in VecTypes : \E n \in ReadCounts(T) :
           \E a \in Addresses(n * size(T)) : ReadVec(T, a, n)

NextGpr ==
    \/ \E reg_name \in GPRNameSet, v \in GprValues : SetGpr(reg_name, v)
    \/ \E reg_name \in GPRNameSet : GetGpr(reg_name)

NextFlagsIp ==
    \/ \E reg_name \in FLAGSNames, v \in GprValues : SetFlags(reg_name, v)
    \/ \E reg_name \in FLAGSNames : GetFlags(reg_name)
    \/ \E reg_name \in IPNames, v \in GprValues : SetIp(reg_name, v)
    \/ \E reg_name \in IPNames : GetIp(reg_name)

NextSections ==
    \/ \E reg_type \in VecRegNames, reg_index \in SimdSlots :
           \E T \in SectionTypes : \E sections \in LaneVectors(T) :
               SetBySections(reg_type, reg_index, T, sections)
    \/ \E reg_type \in VecRegNames, reg_index \in SimdSlots, T \in SectionTypes :
           GetBySections(reg_type, reg_index, T)

NextSelector ==
    \/ \E reg_index \in SimdSlots, f \in FillVectors :
           SetBySections(f[1], reg_index, f[2], f[3])
    \/ \E reg_index \in SelectorSlots, selector \in Selectors :
           \E T \in SelectorTypes : \E value \in Values(T) :
               SetBySelector("XMM", reg_index, T, selector, value)
    \/ \E reg_index \in SelectorSlots, selector \in Selectors, T \in SelectorTypes :
           GetBySelector("XMM", reg_index, T, selector)

NextBits ==
    \/ \E reg_type \in VecRegNames, reg_index \in SimdSlots :
           \E bit_position \in BitPositions, value \in BOOLEAN :
               SetBit(reg_type, reg_index, bit_position, value)
    \/ \E reg_type \in VecRegNames, reg_index \in SimdSlots :
           \E bit_position \in BitPositions :
               GetBit(reg_type, reg_index, bit_position)
    \/ \E reg_index \in SimdSlots : Clear(reg_index)
    \/ \E reg_type \in VecRegNames, reg_index \in SimdSlots, T \in BitSectionTypes :
           GetBySections(reg_type, reg_index, T)

Next == NextMem \/ NextGpr \/ NextFlagsIp \/ NextSections \/ NextSelector \/ NextBits

\* the whole CPU
Spec == Init /\ [][Next]_vars

\* the memory alone: no register operation happens
SpecMem == Init /\ [][NextMem]_vars

\* the general purpose registers of CPU::default() alone: no memory operation
\* happens
SpecGpr == InitDefault /\ [][NextGpr]_vars

\* the section operations on the SIMD registers of CPU::default() alone
SpecSections == InitDefault /\ [][NextSections]_vars

\* the selector operations on the SIMD registers of CPU::default(), on
\* registers filled by set_by_sections as the selector test does
SpecSelector == InitDefault /\ [][NextSelector]_vars

\* the flags register and the instruction pointer of CPU::default() alone
SpecFlagsIp == InitDefault /\ [][NextFlagsIp]_vars

\* the bit operations on the SIMD registers of CPU::default(), with the
\* section reads the test makes after set_bit
SpecBits == InitDefault /\ [][NextBits]_vars

----------------------------------------------------------------------------
(* Claims about the memory *)

\* address a is at or above the base address
AtOrAboveBase(a) == ~ULt(a, base_address)

\* every byte of the n-byte access at address a lies, relative to the base,
\* below the last 512-byte block of the address space, and a + n does not wrap
BelowTopBlock(a, n) == AtOrAboveBase(a) /\ a >= 0 /\ base_address >= 0

\* C1: write<T>(a, v) immediately followed by read<T>(a) returns v, for every
\* width T, every address a at or above the base address and every value v.
C1_WriteThenRead ==
    (last.op = "write" /\ AtOrAboveBase(last.addr))
        => (last.ok /\ read(last.ty, segments, last.addr) = Ok(last.vals[1]))

\* C1 away from the top of the address space: the round trip of C1 holds for
\* the addresses whose bytes lie below the last 512-byte block.
C1_WriteThenRead_BelowTop ==
    (last.op = "write" /\ BelowTopBlock(last.addr, size(last.ty)))
        => (last.ok /\ read(last.ty, segments, last.addr) = Ok(last.vals[1]))

C1_BelowTop_Witness ==
    /\ last.op = "write" /\ last.ty = "u512" /\ last.addr = base_address + 511
    /\ Len(segments) = 1 /\ Len(segments[1].data) = 3 * DEFAULT_SIZE

\* the byte addresses the claims read: around every address the operations use
Probes ==
    {a + d : a \in {base_address + o : o \in MemOffsets} \cup LowAddresses \cup TopAddresses,
             d \in {-2, -1, 0, 1, 2, 64, 512}}

\* C2: in any state reached by writes, reading a byte address that was never
\* written returns 0 without error, unmapped or inside an allocated segment.
C2_NeverWrittenReadsZero ==
    ~panicked =>
        \A a \in Probes :
            (AtOrAboveBase(a) /\ a \notin written) => read_byte(segments, a) = Ok(0)

\* segment i ends strictly before segment i + 1 starts (as numbers in 0..2^64)
EndsBeforeNext(i) ==
    LET s == segments[i].start_address
        e == s + Len(segments[i].data)
        t == segments[i + 1].start_address
    IN  IF s < 0 THEN t < 0 /\ e < t ELSE t < 0 \/ e < t

\* C3: after every write the segments are sorted strictly ascending by start
\* offset, do not overlap, and no segment ends where the next one starts.
C3_SegmentsSortedDisjointMerged ==
    \A i \in 1..(Len(segments) - 1) :
        /\ ULt(segments[i].start_address, segments[i + 1].start_address)
        /\ EndsBeforeNext(i)

\* the 512-byte blocks (index relative to the base) a byte was written in
TouchedBlocks == {(a - base_address) \div DEFAULT_SIZE : a \in written}

\* segment i holds the whole block b
Covers(i, b) ==
    /\ segments[i].start_address <= b * DEFAULT_SIZE
    /\ (b + 1) * DEFAULT_SIZE <= segments[i].start_address + Len(segments[i].data)

\* C4: once bytes are written in two blocks and in every block between them,
\* all those blocks belong to one segment; from empty memory, when the written
\* blocks are consecutive, there is exactly one segment.
C4_FullCoalescing ==
    ~panicked =>
        /\ \A b1, b2 \in TouchedBlocks :
               (b1 < b2 /\ ((b1 < 0) = (b2 < 0)) /\ \A b \in b1..b2 : b \in TouchedBlocks)
                   => \E i \in 1..Len(segments) : Covers(i, b1) /\ Covers(i, b2)
        /\ (/\ TouchedBlocks # {}
            /\ \A b1, b2 \in TouchedBlocks :
                   ((b1 < 0) = (b2 < 0)) /\ \A b \in b1..b2 : b \in TouchedBlocks)
               => Len(segments) = 1

\* C5: after write_vec<u64>(X, vs) with n values, read_vec<u32>(X, 2n) returns
\* the low 32 bits of vs[i] at index 2i and the high 32 bits at index 2i + 1.
C5_CrossWidthVector ==
    (last.op = "write_vec" /\ last.ty = "u64")
        => LET vs == last.vals
               r == read_vec("u32", segments, last.addr, 2 * Len(vs))
           IN  /\ last.ok
               /\ ~r.panic
               /\ Len(r.val) = 2 * Len(vs)
               /\ \A k \in 1..(2 * Len(vs)) : \A j \in Bits(32) :
                      r.val[k][j] = vs[((k - 1) \div 2) + 1][j + 32 * ((k - 1) % 2)]

\* C6: after write<T>(a, v) the byte at a + i holds bits 8i..8i+7 of v, and
\* read<T>(a) reassembles the bytes at a..a+size-1 in the same order.
C6_LittleEndianLayout ==
    last.op = "write"
        => LET v == last.vals[1]
               n == size(last.ty)
               r == read(last.ty, segments, last.addr)
               byte(i) == read_byte(segments, last.addr + i)
           IN  /\ last.ok
               /\ \A i \in 0..(n - 1) :
                      /\ ~byte(i).panic
                      /\ byte(i).val \in 0..255
                      /\ \A k \in 0..7 : ((byte(i).val \div (2 ^ k)) % 2 = 1) = v[8 * i + k]
               /\ ~r.panic
               /\ \A j \in Bits(8 * n) :
                      r.val[j] = ((byte(j \div 8).val \div (2 ^ (j % 8))) % 2 = 1)

\* C24: read and write are defined for every address, also below the base
\* address: the call completes without abort, read returns a value of its
\* type, and a read after a write returns the value written.
C24_NoAddressInvalid ==
    /\ last.op = "read" =>
           /\ last.ok
           /\ last.res[1] \in [Bits(8 * size(last.ty)) -> BOOLEAN]
    /\ last.op = "write" =>
           /\ last.ok
           /\ read(last.ty, segments, last.addr) = Ok(last.vals[1])

\* the start offsets of the 512-byte blocks the segments segs hold
MappedBlocks(segs) ==
    UNION {{segs[i].start_address + 512 * k : k \in 0..((Len(segs[i].data) \div 512) - 1)} :
               i \in 1..Len(segs)}

\* offset x aligned down to a multiple of 512
AlignDown(x) == x - (x % 512)

\* the segments of segs that hold the block at offset b
Holding(segs, b) ==
    {i \in 1..Len(segs) :
         \E k \in 0..((Len(segs[i].data) \div 512) - 1) : segs[i].start_address + 512 * k = b}

TouchedRuns == Cardinality({b \in TouchedBlocks : b = 0 \/ (b - 1) \notin TouchedBlocks})

\* C26: after any sequence of writes the number of segments is the number of
\* maximal runs of consecutive blocks holding a written byte; it is at most
\* the number of touched blocks (so writes to mapped addresses add none).
C26_SegmentCountBound ==
    ~panicked =>
        /\ Len(segments) = TouchedRuns
        /\ Len(segments) <= Cardinality(TouchedBlocks)

\* the byte addresses the operation of the record op accesses
Accessed(op) ==
    LET n == IF op.op = "write_vec" THEN Len(op.vals) * size(op.ty) ELSE size(op.ty)
    IN  {op.addr + i : i \in 0..(n - 1)}

\* segment i of old lies within one segment of new
Kept(old, new, i) ==
    \E j \in 1..Len(new) :
        /\ new[j].start_address <= old[i].start_address
        /\ old[i].start_address + Len(old[i].data)
               <= new[j].start_address + Len(new[j].data)

\* C27: no operation unmaps an address, and every segment stays or becomes
\* part of a larger one; the set of mapped addresses changes only in a write
\* to an address in no mapped block: reads and writes to mapped addresses
\* leave it as it is.
C27_MappedOnlyGrows ==
    [][nops' = nops + 1 =>
           /\ MappedBlocks(segments) \subseteq MappedBlocks(segments')
           /\ \A i \in 1..Len(segments) : Kept(segments, segments', i)
           /\ last'.op \in {"read", "read_vec"} => segments' = segments
           /\ MappedBlocks(segments') # MappedBlocks(segments) =>
                  /\ last'.op \in {"write", "write_vec"}
                  /\ \E a \in Accessed(last') :
                         AlignDown(a - base_address) \notin MappedBlocks(segments)
           /\ MappedBlocks(segments') \subseteq
                  MappedBlocks(segments)
                      \cup {AlignDown(a - base_address) : a \in Accessed(last')}]_vars

\* a write<u512> across blocks 0 and 1 next to the mapped block 2: the segment
\* of block 2 is now part of the one segment of 1536 bytes
C27_Witness ==
    /\ last.op = "write" /\ last.ok /\ last.ty = "u512"
    /\ last.addr = base_address + 511
    /\ Len(segments) = 1
    /\ segments[1].start_address = 0
    /\ Len(segments[1].data) = 1536
    /\ segments[1].data[1025] # 0

\* C28: write<T>(a, v) changes only the bytes at a .. a + size(T) - 1: at
\* every other address read<u8> returns after the write what it returned
\* before, also when the write maps a block, sorts or merges the segments.
C28_MemoryWriteFrame ==
    [][(last'.op = "write" /\ nops' = nops + 1) =>
           \A b \in Probes \ Accessed(last') :
               read_byte(segments', b) = read_byte(segments, b)]_vars

----------------------------------------------------------------------------
(* Claims about the general-purpose registers *)

\* the 16 register families of the architecture, at their position in the
\* register file: 64-bit parent, 32-bit, 16-bit, low-byte and high-byte name
Families ==
    << <<"RAX", "EAX", "AX", "AL", "AH">>,
       <<"RBX", "EBX", "BX", "BL", "BH">>,
       <<"RCX", "ECX", "CX", "CL", "CH">>,
       <<"RDX", "EDX", "DX", "DL", "DH">>,
       <<"RSI", "ESI", "SI", "SIL">>,
       <<"RDI", "EDI", "DI", "DIL">>,
       <<"RBP", "EBP", "BP", "BPL">>,
       <<"RSP", "ESP", "SP", "SPL">>,
       <<"R8", "R8D", "R8W", "R8B">>,
       <<"R9", "R9D", "R9W", "R9B">>,
       <<"R10", "R10D", "R10W", "R10B">>,
       <<"R11", "R11D", "R11W", "R11B">>,
       <<"R12", "R12D", "R12W", "R12B">>,
       <<"R13", "R13D", "R13W", "R13B">>,
       <<"R14", "R14D", "R14W", "R14B">>,
       <<"R15", "R15D", "R15W", "R15B">> >>

\* the places <<family, column>> a name stands at in the table
PlacesOf(name) ==
    {pl \in (1..16) \X (1..5) : pl[2] <= Len(Families[pl[1]]) /\ Families[pl[1]][pl[2]] = name}

\* index in the register file of the family of a name
FamilyOf(name) == (CHOOSE pl \in PlacesOf(name) : TRUE)[1] - 1

\* 1: the 64 bits, 2: the low 32, 3: the low 16, 4: the low 8, 5: bits 8-15
ViewOf(name) == (CHOOSE pl \in PlacesOf(name) : TRUE)[2]

\* the 64-bit number made of bits lo..hi of x, moved down to bit 0
Field(x, lo, hi) == [j \in Bits(64) |-> j + lo <= hi /\ x[j + lo]]

\* what a name shows of its family's 64-bit value x
Shown(x, name) ==
    CASE ViewOf(name) = 1 -> x
      [] ViewOf(name) = 2 -> Field(x, 0, 31)
      [] ViewOf(name) = 3 -> Field(x, 0, 15)
      [] ViewOf(name) = 4 -> Field(x, 0, 7)
      [] ViewOf(name) = 5 -> Field(x, 8, 15)

\* number of bits a name shows
ViewBits(name) ==
    CASE ViewOf(name) = 1 -> 64
      [] ViewOf(name) = 2 -> 32
      [] ViewOf(name) = 3 -> 16
      [] OTHER -> 8

\* the last operation was set_gpr_value on a name of the given view
SetOn(view) == last.op = "set_gpr" /\ ViewOf(last.name) = view

\* C7: set_gpr_value on a 32-bit name with value v makes the family's 64-bit
\* value v & 0xFFFFFFFF whatever it held before: bits 32-63 become zero.
C7_Write32ZeroExtends ==
    SetOn(2) =>
        /\ last.ok
        /\ gpr[FamilyOf(last.name)] = [j \in Bits(64) |-> j < 32 /\ last.vals[1][j]]

C7_Witness ==
    /\ SetOn(2) /\ last.name = "R15D"
    /\ last.old[15] = Ones(64)
    /\ last.vals[1] = x12345678_9ABCDEF0
    /\ \A j \in 32..63 : ~gpr[15][j]
    /\ gpr[15][4] /\ ~gpr[15][0]

\* C8: set_gpr_value on a 16-bit name replaces bits 0-15 of the family's value
\* by v & 0xFFFF and keeps bits 16-63; on a low-byte name it replaces bits 0-7
\* by v & 0xFF and keeps bits 8-63.
C8_Write16AndLow8Merge ==
    /\ SetOn(3) =>
           /\ last.ok
           /\ gpr[FamilyOf(last.name)] =
                  [j \in Bits(64) |-> IF j < 16 THEN last.vals[1][j]
                                      ELSE last.old[FamilyOf(last.name)][j]]
    /\ SetOn(4) =>
           /\ last.ok
           /\ gpr[FamilyOf(last.name)] =
                  [j \in Bits(64) |-> IF j < 8 THEN last.vals[1][j]
                                      ELSE last.old[FamilyOf(last.name)][j]]

C8_Witness ==
    /\ last.op = "set_gpr" /\ last.name \in {"R9W", "SIL"}
    /\ last.old[FamilyOf(last.name)] = Ones(64)
    /\ last.vals[1] = x12345678_9ABCDEF0
    /\ gpr[FamilyOf(last.name)][63] /\ ~gpr[FamilyOf(last.name)][0]

\* C9: set_gpr_value on AH/BH/CH/DH puts the low 8 bits of v into bits 8-15 of
\* the family's value and keeps bits 0-7 and 16-63; get_gpr_value on such a
\* name returns bits 8-15 moved down to bits 0-7, so set-then-get is v & 0xFF.
C9_HighByteAlias ==
    /\ SetOn(5) =>
           /\ last.ok
           /\ gpr[FamilyOf(last.name)] =
                  [j \in Bits(64) |-> IF j \in 8..15 THEN last.vals[1][j - 8]
                                      ELSE last.old[FamilyOf(last.name)][j]]
           /\ get_gpr_value(gpr, last.name) =
                  Ok([j \in Bits(64) |-> j < 8 /\ last.vals[1][j]])
    /\ (last.op = "get_gpr" /\ ViewOf(last.name) = 5) =>
           /\ last.ok
           /\ last.res[1] = [j \in Bits(64) |-> j < 8 /\ gpr[FamilyOf(last.name)][j + 8]]

\* AH written with 0x...F0 over a register holding all ones
C9_Witness ==
    /\ SetOn(5) /\ last.name = "AH"
    /\ last.old[0] = Ones(64)
    /\ last.vals[1] = x12345678_9ABCDEF0
    /\ gpr[0][0] /\ ~gpr[0][8] /\ gpr[0][12] /\ gpr[0][16]

\* C10: each of the 64 names resolves to exactly one family, the one of its
\* 64-bit parent; get_gpr_value returns that family's value restricted to the
\* name's view; set_gpr_value changes none of the other 15 families.
C10_NameMappingTotalIsolated ==
    /\ last.op \in {"set_gpr", "get_gpr"} =>
           /\ last.ok
           /\ Cardinality(PlacesOf(last.name)) = 1
    /\ last.op = "get_gpr" =>
           last.res[1] = Shown(gpr[FamilyOf(last.name)], last.name)
    /\ last.op = "set_gpr" =>
           /\ \A i \in (0..15) \ {FamilyOf(last.name)} : gpr[i] = last.old[i]
           /\ Shown(gpr[FamilyOf(last.name)], last.name) =
                  Field(last.vals[1], 0, ViewBits(last.name) - 1)

\* SIL written while RDI holds all ones
C10_Witness ==
    /\ last.op = "set_gpr" /\ last.name = "SIL"
    /\ last.old[5] = Ones(64) /\ gpr[5] = Ones(64)
    /\ last.old[4] = Zero(64) /\ gpr[4][4] /\ ~gpr[4][8]

----------------------------------------------------------------------------
(* Claims about the instruction pointer and the flags register *)

\* the 64-bit value whose low n bits are those of v and whose other bits are
\* those of old
LowReplaced(old, v, n) == [j \in Bits(64) |-> IF j < n THEN v[j] ELSE old[j]]

\* C11: set_ip_value(EIP, v) replaces only the low 32 bits of the instruction
\* pointer and set_ip_value(IP, v) only the low 16 bits; the higher bits of
\* the stored value, as get_ip_value(RIP) reads it, stay unchanged.
C11_IpNarrowWritesMerge ==
    /\ (last.op = "set_ip" /\ last.name = "EIP") =>
           get_ip_value(rip, "RIP") = LowReplaced(last.old, last.vals[1], 32)
    /\ (last.op = "set_ip" /\ last.name = "IP") =>
           get_ip_value(rip, "RIP") = LowReplaced(last.old, last.vals[1], 16)

\* C12: set_flags_value(EFLAGS, v) replaces only the low 32 bits of the flags
\* value and set_flags_value(FLAGS, v) only the low 16 bits; get_flags_value
\* of EFLAGS / FLAGS returns the value masked to its low 32 / 16 bits; RFLAGS
\* set then get returns the full 64 bits.
C12_FlagsNarrowAccess ==
    /\ (last.op = "set_flags" /\ last.name = "EFLAGS") =>
           rflags = LowReplaced(last.old, last.vals[1], 32)
    /\ (last.op = "set_flags" /\ last.name = "FLAGS") =>
           rflags = LowReplaced(last.old, last.vals[1], 16)
    /\ (last.op = "set_flags" /\ last.name = "RFLAGS") =>
           /\ rflags = last.vals[1]
           /\ get_flags_value(rflags, "RFLAGS") = last.vals[1]
    /\ (last.op = "get_flags" /\ last.name = "RFLAGS") => last.res[1] = rflags
    /\ (last.op = "get_flags" /\ last.name = "EFLAGS") =>
           last.res[1] = [j \in Bits(64) |-> j < 32 /\ rflags[j]]
    /\ (last.op = "get_flags" /\ last.name = "FLAGS") =>
           last.res[1] = [j \in Bits(64) |-> j < 16 /\ rflags[j]]

\* EFLAGS written with 0x...9ABCDEF0 over flags holding all ones
C12_Witness ==
    /\ last.op = "set_flags" /\ last.name = "EFLAGS"
    /\ last.old = Ones(64)
    /\ last.vals[1] = x12345678_9ABCDEF0
    /\ rflags[63] /\ rflags[32] /\ ~rflags[0] /\ rflags[4]

----------------------------------------------------------------------------
(* Claims about the sections of the SIMD registers *)

\* the width in bits of the view of a register type
ViewWidth(reg_type) ==
    CASE reg_type = "XMM" -> 128
      [] reg_type = "YMM" -> 256
      [] reg_type = "ZMM" -> 512

\* the last operation was set_by_sections with lanes that fill the view
SetMatchingSections ==
    /\ last.op = "set_by_sections"
    /\ Len(last.vals) * 8 * size(last.ty) = ViewWidth(last.reg)

\* C13: set_by_sections(W, slot, vs) with len(vs) * bitwidth(T) = W returns
\* true, and get_by_sections<T>(W, slot) then returns exactly vs, whatever the
\* slot held before.
C13_SectionRoundTrip ==
    SetMatchingSections =>
        /\ last.ok
        /\ last.res = <<TRUE>>
        /\ get_by_sections(simd_registers, last.reg, last.idx, last.ty).panic = FALSE
        /\ get_by_sections(simd_registers, last.reg, last.idx, last.ty).val.ret
               = <<last.vals>>

\* C14: after a successful set_by_sections at width W < 512 every bit W..511
\* of the slot is zero whatever it held before: the slot read as ZMM sections
\* has the written lanes first and zero in all other lanes.
C14_UpperLaneZeroing ==
    (SetMatchingSections /\ last.ok /\ last.res = <<TRUE>> /\ ViewWidth(last.reg) < 512) =>
        /\ \A p \in ViewWidth(last.reg)..511 : ~simd_registers[last.idx][p]
        /\ LET zmm == get_by_sections(simd_registers, "ZMM", last.idx, last.ty).val.ret[1]
           IN  \A k \in 1..Len(zmm) :
                   zmm[k] = IF k <= Len(last.vals) THEN last.vals[k]
                            ELSE [j \in Bits(8 * size(last.ty)) |-> FALSE]

\* C15: set_by_sections with lanes whose len * bitwidth(T) differs from W (too
\* few, too many, more than 512 bits) returns false and leaves all bits of
\* the slot and every other register unchanged.
C15_SectionMismatchNoMutation ==
    [][(/\ last'.op = "set_by_sections"
        /\ nops' = nops + 1
        /\ Len(last'.vals) * 8 * size(last'.ty) # ViewWidth(last'.reg))
           => /\ last'.ok
              /\ last'.res = <<FALSE>>
              /\ simd_registers' = simd_registers
              /\ gpr' = gpr /\ rflags' = rflags /\ rip' = rip]_vars

----------------------------------------------------------------------------
(* Claims about the selectors of the SIMD registers *)

\* the well-formed selectors "[hi:lo]" the operations are given, as
\* <<text, hi, lo>>; MAX is bit 511, and hi = -1 stands for 2^64 - 1
SelectorRanges ==
    { <<(<<"[", "3", "1", ":", "0", "]">>), 31, 0>>,
      <<(<<"[", "6", "3", ":", "3", "2", "]">>), 63, 32>>,
      <<(<<"[", "1", "2", "7", ":", "0", "]">>), 127, 0>>,
      <<(<<"[", "M", "A", "X", ":", "6", "4", "]">>), 511, 64>>,
      <<(<<"[", "0", ":", "3", "1", "]">>), 0, 31>>,
      <<(<<"[", "1", "8", "4", "4", "6", "7", "4", "4", "0", "7", "3", "7", "0", "9", "5",
           "5", "1", "6", "1", "5", ":", "0", "]">>), -1, 0>> }

WellFormed(sel) == \E t \in SelectorRanges : t[1] = sel

Hi(sel) == (CHOOSE t \in SelectorRanges : t[1] = sel)[2]

Lo(sel) == (CHOOSE t \in SelectorRanges : t[1] = sel)[3]

\* the selector is "[hi:lo]" with lo <= hi <= 511
InBounds(sel) == WellFormed(sel) /\ Hi(sel) >= 0 /\ Lo(sel) <= Hi(sel) /\ Hi(sel) <= 511

\* physical bit p is in the range lo..hi of the selector
Selects(sel, p) == Lo(sel) <= p /\ (Hi(sel) < 0 \/ p <= Hi(sel))

\* the selector strings that are not of the form "[A:B]" with A and B a
\* decimal integer or MAX: "[x:3]", "[:]" and "31:0"
Malformed ==
    { <<"[", "x", ":", "3", "]">>, <<"[", ":", "]">>, <<"3", "1", ":", "0">> }

\* C16: for "[hi:lo]" with lo <= hi <= 511 and hi-lo+1 <= bitwidth(T),
\* set_by_selector<T>(slot, "[hi:lo]", v) returns true and get_by_selector<T>
\* of the same selector then returns v masked to its low hi-lo+1 bits, packed
\* from bit 0, whatever the slot held before.
C16_SelectorRoundTrip ==
    (/\ last.op = "set_by_selector"
     /\ InBounds(last.sel)
     /\ Hi(last.sel) - Lo(last.sel) + 1 <= 8 * size(last.ty))
        => /\ last.ok
           /\ last.res = <<TRUE>>
           /\ get_by_selector(simd_registers, last.idx, last.ty, last.sel).panic = FALSE
           /\ get_by_selector(simd_registers, last.idx, last.ty, last.sel).val.ret
                  = <<[j \in Bits(8 * size(last.ty)) |->
                          j <= Hi(last.sel) - Lo(last.sel) /\ last.vals[1][j]]>>

\* "[63:32]" written as u128 over lanes that held 0x12345678
C16_Witness ==
    /\ last.op = "set_by_selector" /\ last.ty = "u128"
    /\ last.sel = <<"[", "6", "3", ":", "3", "2", "]">>
    /\ last.old[36] /\ ~simd_registers[15][36]
    /\ simd_registers[15][32] /\ simd_registers[15][4]

\* C17: MAX in a selector is physical bit 511; set_by_selector<T>(slot,
\* "[hi:lo]", v) sets bit lo+k to bit k of v for k < bitwidth(T) and sets the
\* bits of lo..hi at offset k >= bitwidth(T) to zero, leaving no old bit of
\* the range in place.
C17_SelectorSetOverwritesRange ==
    (/\ last.op = "set_by_selector"
     /\ WellFormed(last.sel)
     /\ Hi(last.sel) < 0 \/ Lo(last.sel) <= Hi(last.sel))
        => /\ last.ok
           /\ \A p \in 0..511 :
                  Selects(last.sel, p) =>
                      simd_registers[last.idx][p]
                          = (p - Lo(last.sel) < 8 * size(last.ty)
                               /\ last.vals[1][p - Lo(last.sel)])

\* "[MAX:64]" written as u32 all ones over a register that held all ones
C17_Witness ==
    /\ last.op = "set_by_selector" /\ last.ty = "u32"
    /\ last.sel = <<"[", "M", "A", "X", ":", "6", "4", "]">>
    /\ last.vals[1] = Ones(32)
    /\ \A p \in 0..511 : last.old[p]
    /\ simd_registers[15][63] /\ simd_registers[15][64] /\ simd_registers[15][95]
    /\ ~simd_registers[15][96] /\ ~simd_registers[15][511]

\* C18: set_by_selector(slot, "[hi:lo]", v) leaves every bit of the slot
\* outside lo..hi unchanged, and all other slots, the GPRs, the flags, the
\* instruction pointer and the memory unchanged.
C18_SelectorSetFrame ==
    [][(/\ last'.op = "set_by_selector"
        /\ nops' = nops + 1
        /\ WellFormed(last'.sel))
           => /\ \A p \in 0..511 :
                     ~Selects(last'.sel, p) =>
                         simd_registers'[last'.idx][p] = simd_registers[last'.idx][p]
              /\ \A i \in (0..15) \ {last'.idx} : simd_registers'[i] = simd_registers[i]
              /\ gpr' = gpr /\ rflags' = rflags /\ rip' = rip
              /\ segments' = segments /\ base_address' = base_address]_vars

\* "[31:0]" written with all ones over four lanes 0x12345678 of slot 15
C18_Witness ==
    /\ last.op = "set_by_selector" /\ last.idx = 15
    /\ last.sel = <<"[", "3", "1", ":", "0", "]">>
    /\ last.vals[1] = Ones(32)
    /\ ~last.old[0] /\ simd_registers[15][0]
    /\ \A k \in 0..3 : \A j \in Bits(32) : last.old[32 * k + j] = x12345678[j]
    /\ \A k \in 1..3 : \A j \in Bits(32) : simd_registers[15][32 * k + j] = x12345678[j]

\* C19: for a selector string that is not of the form "[A:B]" with A and B a
\* decimal integer or MAX, get_by_selector returns None, set_by_selector
\* returns false, and no register bit changes.
C19_MalformedSelectorFails ==
    [][(/\ last'.op \in {"set_by_selector", "get_by_selector"}
        /\ nops' = nops + 1
        /\ last'.sel \in Malformed)
           => /\ last'.ok
              /\ last'.op = "get_by_selector" => last'.res = <<(<<>>)>>
              /\ last'.op = "set_by_selector" => last'.res = <<FALSE>>
              /\ simd_registers' = simd_registers]_vars

\* C20: get_by_selector<T>(slot, "[hi:lo]") with hi-lo+1 greater than
\* bitwidth(T) panics: it returns neither a value nor None, and the registers
\* are not modified.
C20_OverWideSelectorReadPanics ==
    [][(/\ last'.op = "get_by_selector"
        /\ nops' = nops + 1
        /\ WellFormed(last'.sel)
        /\ \/ Hi(last'.sel) < 0
           \/ Hi(last'.sel) - Lo(last'.sel) + 1 > 8 * size(last'.ty))
           => /\ ~last'.ok
              /\ panicked'
              /\ simd_registers' = simd_registers]_vars

\* C29: set_by_selector with a well-formed selector "[hi:lo]" whose hi is
\* below lo changes no bit of any register and returns true.
C29_ReversedSelectorSet ==
    [][(/\ last'.op = "set_by_selector"
        /\ nops' = nops + 1
        /\ WellFormed(last'.sel)
        /\ Hi(last'.sel) >= 0
        /\ Hi(last'.sel) < Lo(last'.sel))
           => /\ last'.ok
              /\ last'.res = <<TRUE>>
              /\ simd_registers' = simd_registers
              /\ gpr' = gpr /\ rflags' = rflags /\ rip' = rip]_vars

\* "[0:31]" written with all ones over four lanes 0x12345678 of slot 15: the
\* lanes are as before and the call returned true
C29_Witness ==
    /\ last.op = "set_by_selector" /\ last.idx = 15 /\ last.ok
    /\ last.sel = <<"[", "0", ":", "3", "1", "]">>
    /\ last.vals[1] = Ones(32)
    /\ last.res = <<TRUE>>
    /\ \A k \in 0..3 : \A j \in Bits(32) : last.old[32 * k + j] = x12345678[j]
    /\ simd_registers[15] = last.old

----------------------------------------------------------------------------
(* Claims about the bits of the SIMD registers *)

\* position pos lies in the view of width W of reg_type
InView(reg_type, pos) == pos >= 0 /\ pos < ViewWidth(reg_type)

\* C21: get_bit with pos >= W returns None and set_bit with pos >= W changes
\* no bit of any register; with pos < W get_bit returns Some(the current
\* bit) and set_bit stores the value at pos.  Neither aborts.
C21_VectorBitBoundsCheck ==
    [][/\ (last'.op = "get_bit" /\ nops' = nops + 1) =>
              /\ last'.ok
              /\ last'.res = <<IF InView(last'.reg, last'.addr)
                               THEN <<simd_registers[last'.idx][last'.addr]>>
                               ELSE <<>>>>
              /\ simd_registers' = simd_registers
       /\ (last'.op = "set_bit" /\ nops' = nops + 1) =>
              /\ last'.ok
              /\ IF InView(last'.reg, last'.addr)
                 THEN simd_registers'[last'.idx][last'.addr] = last'.vals[1]
                 ELSE /\ simd_registers' = simd_registers
                      /\ gpr' = gpr /\ rflags' = rflags /\ rip' = rip]_vars

\* a set_bit(XMM, slot, 128, true) on a slot that holds a 1 at bit 127 was
\* rejected: bit 128 is still 0 and bit 127 still 1
C21_Witness ==
    /\ last.op = "set_bit" /\ last.ok
    /\ last.reg = "XMM" /\ last.addr = 128 /\ last.vals = <<TRUE>>
    /\ last.old[127] /\ ~last.old[128]
    /\ simd_registers[last.idx] = last.old

\* C22: after set_bit(W, slot, p, b) with p < W, get_bit(W', slot, p) returns
\* Some(b) for every view W' with p < W'; the set_bit changed no bit other
\* than bit p of the slot (none above the view width, none of another slot).
C22_VectorWidthAliasing ==
    [][(last'.op = "set_bit" /\ nops' = nops + 1 /\ InView(last'.reg, last'.addr)) =>
           /\ last'.ok
           /\ \A reg_type \in VecRegNames :
                  InView(reg_type, last'.addr) =>
                      get_bit(simd_registers', reg_type, last'.idx, last'.addr)
                          = Done(Some(last'.vals[1]), simd_registers')
           /\ simd_registers' = [simd_registers EXCEPT ![last'.idx][last'.addr] =
                                     simd_registers'[last'.idx][last'.addr]]
           /\ gpr' = gpr /\ rflags' = rflags /\ rip' = rip]_vars

\* a set_bit(XMM, slot, 127, true) on a slot that holds a 1 at bit 511: both
\* bits are 1 afterwards
C22_Witness ==
    /\ last.op = "set_bit" /\ last.ok
    /\ last.reg = "XMM" /\ last.addr = 127 /\ last.vals = <<TRUE>>
    /\ last.old[511] /\ ~last.old[127]
    /\ simd_registers[last.idx][511] /\ simd_registers[last.idx][127]

\* C23: get_by_sections<T>(W, slot) returns ceil(W / bitwidth(T)) lanes, also
\* for T wider than W (one lane), least significant lane first: bit j of lane
\* k is the physical bit k * bitwidth(T) + j of the slot.
C23_SectionDecompositionShape ==
    last.op = "get_by_sections" =>
        /\ last.ok
        /\ last.res # <<None>>
        /\ LET lanes == last.res[1][1]
               tb == 8 * size(last.ty)
           IN  /\ Len(lanes) = (ViewWidth(last.reg) + tb - 1) \div tb
               /\ \A k \in 1..Len(lanes) : \A j \in 0..(tb - 1) :
                      lanes[k][j] = (/\ (k - 1) * tb + j < 512
                                     /\ simd_registers[last.idx][(k - 1) * tb + j])

====
